---------------------------- MODULE Spec2Model ----------------------------
(***************************************************************************)
(* Model of the Roast2Site server (src/server.js, the second and later     *)
(* copy of the program, lines 392-888).                                    *)
(*                                                                         *)
(* JavaScript strings are sequences of chunks: a chunk is a piece of text  *)
(* that the program never looks inside ("a.com", "Acme") or one of the     *)
(* pieces its string operations do look at ("http", "s", "://", ",", " "). *)
(* 'https' is always written <<"http", "s">> so that startsWith('http')    *)
(* and startsWith('https') are computed, not assumed.                      *)
(*                                                                         *)
(* One action is one event-loop task: it starts at an I/O event (a request *)
(* arriving, an outbound call settling) and runs every continuation that   *)
(* becomes runnable until the handler blocks on I/O again or returns.      *)
(* Emoji of the report templates are written as ASCII tags: [fire], [ok].  *)
(***************************************************************************)
EXTENDS Integers, Sequences, FiniteSets, TLC

\* ------------------------------------------------------------------------
\* Bounds of the model
\* ------------------------------------------------------------------------
MaxImgs == 1
MaxH1 == 2

\* ------------------------------------------------------------------------
\* JavaScript values and strings
\* ------------------------------------------------------------------------
Undefined == [t |-> "undefined", v |-> <<>>]
Str(s) == [t |-> "string", v |-> s]
Num(n) == [t |-> "number", v |-> <<n>>]

Null == [t |-> "null", v |-> <<>>]

\* a presence test (x !== undefined) in place of ToBoolean
truthyDefined(x) == x.t \notin {"undefined", "null"}

\* ToBoolean: undefined, null, '' and 0 are falsy
Truthy(x) ==
  CASE x.t \in {"undefined", "null"} -> FALSE
    [] x.t = "string" -> x.v # <<>>
    [] x.t = "number" -> x.v # <<0>>

\* `${x}` in a template literal
Interp(x) ==
  CASE x.t = "undefined" -> <<"undefined">>
    [] x.t = "null" -> <<"null">>
    [] x.t = "string" -> x.v
    [] x.t = "number" -> <<ToString(x.v[1])>>

\* String.prototype.startsWith / endsWith
startsWith(s, p) == Len(s) >= Len(p) /\ SubSeq(s, 1, Len(p)) = p
endsWith(s, p) == Len(s) >= Len(p) /\ SubSeq(s, Len(s) - Len(p) + 1, Len(s)) = p

Whitespace == {" ", "\n"}

RECURSIVE trimStart(_)
trimStart(s) ==
  IF s # <<>> /\ Head(s) \in Whitespace THEN trimStart(Tail(s)) ELSE s

RECURSIVE trimEnd(_)
trimEnd(s) ==
  IF s # <<>> /\ s[Len(s)] \in Whitespace
    THEN trimEnd(SubSeq(s, 1, Len(s) - 1))
    ELSE s

\* String.prototype.trim
trim(s) == trimEnd(trimStart(s))

\* s.replace(/\s+/g, ' ')
RECURSIVE collapseWhitespace(_)
collapseWhitespace(s) ==
  IF s = <<>> THEN <<>>
  ELSE IF Head(s) \in Whitespace
    THEN <<" ">> \o collapseWhitespace(trimStart(s))
    ELSE <<Head(s)>> \o collapseWhitespace(Tail(s))

\* needle occurs in s as a contiguous run of chunks
Contains(s, needle) ==
  \E i \in 1..(Len(s) + 1) :
    /\ i + Len(needle) - 1 <= Len(s)
    /\ SubSeq(s, i, i + Len(needle) - 1) = needle

\* ------------------------------------------------------------------------
\* Inputs: URLs and fetched pages
\* ------------------------------------------------------------------------
Https == <<"http", "s">>

\* req.body.url as the client may send it
UrlInputs ==
  { Undefined, Str(<<>>), Num(0), Num(123),
    Str(<<"a.com">>),
    Str(<<"http", "://", "a.com">>),
    Str(<<"http", "s", "://", "a.com">>),
    Str(<<"http", "bin.org">>),
    Str(<<"http", "s", "afe.io">>) }

StringUrls == { u.v : u \in { x \in UrlInputs : x.t = "string" /\ x.v # <<>> } }

\* What cheerio finds in a fetched document.  Selectors that only count
\* elements see the number of matching elements; text() and attr() see the
\* text or attribute of the elements.
ImgCounts ==
  { c \in [noAlt : 0..MaxImgs, emptyAlt : 0..MaxImgs, withAlt : 0..MaxImgs] :
      c.noAlt + c.emptyAlt + c.withAlt <= MaxImgs }

H1Lists == { [i \in 1..n |-> <<" ", "Hi", " ">>] : n \in 0..MaxH1 }

Pages ==
  [ title : { <<>>, <<"Acme">> },
    metaContent : { Undefined, Str(<<>>), Str(<<"A great site.">>) },
    h1 : H1Lists,
    imgs : ImgCounts,
    viewport : 0..1,
    iconLinks : 0..1,
    links : {0},
    scripts : {0, 21},
    stylesheets : {0},
    styles : {0},
    forms : {0},
    buttons : {0},
    submits : {0},
    body : { <<" ", "Hello", " ", "\n", "world", " ">> } ]

\* x || dflt on strings
OrStr(s, dflt) == IF s # <<>> THEN s ELSE dflt
\* x || dflt on values, yielding a string
OrDefault(x, dflt) == IF Truthy(x) THEN x ELSE Str(dflt)

NoTitle == <<"No title found">>
NoMeta == <<"No meta description">>
NoH1 == <<"No H1 found">>

\* fetchWebsite, lines 439-441
normalizeUrl(url) ==
  IF ~startsWith(url, <<"http">>) THEN Https \o <<"://">> \o url ELSE url

\* fetchWebsite, lines 452-469: the analysis record built from the parsed
\* page.  bodyText is cut at 1500 characters; no body of the model is that
\* long.
\* line 458 with the selector written 'img[alt]'
countImgHavingAltAttr(imgs) == imgs.emptyAlt + imgs.withAlt

\* line 458: $('img').length
countImg(imgs) == imgs.noAlt + imgs.emptyAlt + imgs.withAlt

extract(url, page) ==
  [ url |-> url,
    title |-> OrStr(page.title, NoTitle),
    metaDescription |-> OrDefault(page.metaContent, NoMeta).v,
    h1Count |-> Len(page.h1),
    h1Text |-> OrStr(IF page.h1 = <<>> THEN <<>> ELSE trim(page.h1[1]), NoH1),
    imageCount |-> countImg(page.imgs),
    imagesWithoutAlt |-> page.imgs.noAlt + page.imgs.emptyAlt,
    hasHttps |-> startsWith(url, Https),
    linkCount |-> page.links,
    hasViewport |-> page.viewport > 0,
    bodyText |-> trim(collapseWhitespace(page.body)),
    hasFavicon |-> page.iconLinks > 0,
    scriptCount |-> page.scripts,
    cssCount |-> page.stylesheets + page.styles,
    formCount |-> page.forms,
    buttonCount |-> page.buttons + page.submits ]

\* ------------------------------------------------------------------------
\* Heuristic grader: getMockResponse
\* ------------------------------------------------------------------------
BaseScore == 50

clamp(x) == IF x > 100 THEN 100 ELSE IF x < 0 THEN 0 ELSE x

rawScoreH1Ge(a) ==
  BaseScore
  + (IF a.hasHttps THEN 15 ELSE 0)
  + (IF a.hasViewport THEN 10 ELSE 0)
  + (IF a.metaDescription # <<>> /\ a.metaDescription # NoMeta THEN 10 ELSE 0)
  + (IF a.h1Count >= 0 THEN 5 ELSE 0)
  + (IF a.imagesWithoutAlt = 0 /\ a.imageCount > 0 THEN 5 ELSE 0)
  + (IF a.hasFavicon THEN 5 ELSE 0)

\* line 619 written 'analysis.h1Count === 1'
rawScoreH1Exactly(a) ==
  BaseScore
  + (IF a.hasHttps THEN 15 ELSE 0)
  + (IF a.hasViewport THEN 10 ELSE 0)
  + (IF a.metaDescription # <<>> /\ a.metaDescription # NoMeta THEN 10 ELSE 0)
  + (IF a.h1Count = 1 THEN 5 ELSE 0)
  + (IF a.imagesWithoutAlt = 0 /\ a.imageCount > 0 THEN 5 ELSE 0)
  + (IF a.hasFavicon THEN 5 ELSE 0)

\* lines 615-621 followed by 'if (analysis.scriptCount > 20) score -= 5'
rawScoreScriptPenalty(a) ==
  BaseScore
  + (IF a.hasHttps THEN 15 ELSE 0)
  + (IF a.hasViewport THEN 10 ELSE 0)
  + (IF a.metaDescription # <<>> /\ a.metaDescription # NoMeta THEN 10 ELSE 0)
  + (IF a.h1Count > 0 THEN 5 ELSE 0)
  + (IF a.imagesWithoutAlt = 0 /\ a.imageCount > 0 THEN 5 ELSE 0)
  + (IF a.hasFavicon THEN 5 ELSE 0)
  - (IF a.scriptCount > 20 THEN 5 ELSE 0)

\* line 621 written 'score -= 5'
rawScoreFaviconMinus(a) ==
  BaseScore
  + (IF a.hasHttps THEN 15 ELSE 0)
  + (IF a.hasViewport THEN 10 ELSE 0)
  + (IF a.metaDescription # <<>> /\ a.metaDescription # NoMeta THEN 10 ELSE 0)
  + (IF a.h1Count > 0 THEN 5 ELSE 0)
  + (IF a.imagesWithoutAlt = 0 /\ a.imageCount > 0 THEN 5 ELSE 0)
  - (IF a.hasFavicon THEN 5 ELSE 0)

\* lines 615-621: the running total before the clamp
rawScore(a) ==
  BaseScore
  + (IF a.hasHttps THEN 15 ELSE 0)
  + (IF a.hasViewport THEN 10 ELSE 0)
  + (IF a.metaDescription # <<>> /\ a.metaDescription # NoMeta THEN 10 ELSE 0)
  + (IF a.h1Count > 0 THEN 5 ELSE 0)
  + (IF a.imagesWithoutAlt = 0 /\ a.imageCount > 0 THEN 5 ELSE 0)
  + (IF a.hasFavicon THEN 5 ELSE 0)

\* line 622 written 'score += Math.min(...)' like the lines above it
scoreAddAssign(a) == rawScore(a) + clamp(rawScore(a))

\* lines 615-622
score(a) == clamp(rawScore(a))

gradeSwapped(s) ==
  IF s >= 90 THEN "A" ELSE IF s >= 80 THEN "C" ELSE IF s >= 70 THEN "B"
  ELSE IF s >= 60 THEN "D" ELSE "F"

\* line 624
grade(s) ==
  IF s >= 90 THEN "A" ELSE IF s >= 80 THEN "B" ELSE IF s >= 70 THEN "C"
  ELSE IF s >= 60 THEN "D" ELSE "F"

\* lines 627-646
roastReport(a, s, g) ==
  <<"## [fire] ", "Score", ": ", ToString(s), "/100", " | ", "Grade", ": ", g, "\n\n",
    "### First Impressions", "\n", "\"">> \o a.title \o <<"\" - ",
    IF s < 70 THEN "Yikes. Did an intern name this during a coffee break?"
              ELSE "Okay, the title doesn't make me want to close the tab. Low bar, but cleared.",
    "\n\n", "### Technical Roast", "\n",
    "- HTTPS: ",
    IF a.hasHttps THEN "[ok] At least you're not completely living in 2005"
                  ELSE "[alarm] NO HTTPS?! Chrome is literally warning people about you",
    "\n", "- Mobile: ",
    IF a.hasViewport THEN "[ok] Won't look like a postage stamp on phones"
                     ELSE "[x] No viewport = mobile users are squinting",
    "\n", "- Images: ">> \o
  (IF a.imagesWithoutAlt > 0
     THEN <<ToString(a.imagesWithoutAlt), " images playing hide and seek with alt text">>
     ELSE <<"Alt texts present, someone cares about accessibility">>) \o
  <<"\n\n", "### What Actually Works", "\n",
    IF a.hasHttps THEN "You have HTTPS, so you're not completely hopeless."
                  ELSE "The site... loads? That's something.",
    "\n\n", "### The Verdict", "\n",
    IF s < 60 THEN "This website needs CPR."
    ELSE IF s < 80 THEN "Mediocre. The beige of websites."
    ELSE "Surprisingly not terrible.",
    "\n\n", "### Quick Fixes (Do These NOW)", "\n",
    "1. ",
    IF ~a.hasHttps THEN "Get HTTPS immediately - it's free with Let's Encrypt"
    ELSE IF a.imagesWithoutAlt > 0 THEN "Add alt text to images"
    ELSE "Optimize page speed",
    "\n", "2. ",
    IF a.metaDescription = <<>> \/ a.metaDescription = NoMeta
      THEN "Add a meta description for SEO"
      ELSE "Review heading hierarchy",
    "\n", "3. ",
    IF ~a.hasViewport THEN "Add viewport meta tag for mobile"
                      ELSE "Add more clear CTAs">>

\* lines 648-668
professionalReport(a, s, g) ==
  <<"## [chart] ", "Score", ": ", ToString(s), "/100", " | ", "Grade", ": ", g, "\n\n",
    "### Overview", "\n", "\"">> \o a.title \o <<"\" presents a ",
    IF s >= 70 THEN "solid foundation" ELSE "functional but improvable",
    " website that ",
    IF s >= 70 THEN "follows many best practices"
               ELSE "needs attention in several key areas",
    ".", "\n\n", "### Technical Assessment", "\n",
    "- **Security**: ",
    IF a.hasHttps THEN "[ok] HTTPS enabled" ELSE "[warn] Missing HTTPS - critical issue",
    "\n", "- **Mobile**: ",
    IF a.hasViewport THEN "[ok] Viewport configured"
                     ELSE "[warn] No viewport meta - poor mobile experience",
    "\n", "- **SEO**: ",
    IF a.metaDescription # NoMeta THEN "[ok] Meta description present"
                                  ELSE "[warn] Missing meta description",
    "\n", "- **Accessibility**: ">> \o
  (IF a.imagesWithoutAlt = 0
     THEN <<"[ok] Images have alt text">>
     ELSE <<"[warn] ", ToString(a.imagesWithoutAlt), " images need alt text">>) \o
  <<"\n\n", "### Strengths", "\n">> \o
  (IF a.hasHttps THEN <<"SSL certificate properly configured. ">> ELSE <<>>) \o
  (IF a.hasViewport THEN <<"Mobile-responsive setup. ">> ELSE <<>>) \o
  (IF a.h1Count = 1 THEN <<"Proper heading structure.">> ELSE <<>>) \o
  <<"\n\n", "### Priority Improvements", "\n",
    "1. ",
    IF ~a.hasHttps THEN "**Implement SSL** - Essential for security and SEO"
                   ELSE "**Optimize performance** - Review load times",
    "\n", "2. ",
    IF a.imagesWithoutAlt > 0 THEN "**Add alt text** - Improves accessibility and SEO"
                              ELSE "**Enhance meta tags** - Better search visibility",
    "\n", "3. ",
    IF ~a.hasViewport THEN "**Add viewport meta** - Critical for mobile users"
                      ELSE "**Review CTAs** - Ensure clear user actions",
    "\n\n", "### Summary", "\n",
    "This website scores ", ToString(s), "/100", ". ",
    IF s >= 70 THEN "It has a solid foundation with room for optimization."
               ELSE "Focus on the priority improvements above to significantly enhance user experience and search visibility.">>

\* lines 614-670
\* the roast branch grading from a base of 40, as another variant does
getMockResponseRoastBase40(a, style) ==
  IF style = "roast"
    THEN roastReport(a, clamp(rawScore(a) - 10), grade(clamp(rawScore(a) - 10)))
    ELSE professionalReport(a, score(a), grade(score(a)))

\* lines 632-635 with the HTTPS line reading the viewport flag
getMockResponseHttpsFromViewport(a, style) ==
  LET s == score(a)
      b == [a EXCEPT !.hasHttps = a.hasViewport]
  IN  IF style = "roast"
        THEN roastReport(b, s, grade(s))
        ELSE professionalReport(b, s, grade(s))

getMockResponse(a, style) ==
  IF style = "roast"
    THEN roastReport(a, score(a), grade(score(a)))
    ELSE professionalReport(a, score(a), grade(score(a)))

\* ------------------------------------------------------------------------
\* Landing page template: getMockLandingPage
\* ------------------------------------------------------------------------
\* String.prototype.split(',') : the pieces between the commas
RECURSIVE splitFrom(_, _)
splitFrom(s, acc) ==
  IF s = <<>> THEN <<acc>>
  ELSE IF Head(s) = "," THEN <<acc>> \o splitFrom(Tail(s), <<>>)
  ELSE splitFrom(Tail(s), Append(acc, Head(s)))

split(s) == splitFrom(s, <<>>)

TemplateFeatures ==
  <<"Quality service", ",", " ", "Fast delivery", ",", " ", "Great support">>

DefaultLabels == <<<<"Quality Service">>, <<"Fast & Reliable">>, <<"Premium Experience">>>>

\* line 674 without the .map(f => f.trim())
featureListNoTrim(info) ==
  split(OrDefault(info.features, TemplateFeatures).v)

\* line 674
featureList(info) ==
  LET parts == split(OrDefault(info.features, TemplateFeatures).v)
  IN  [i \in 1..Len(parts) |-> trim(parts[i])]

\* the slots read featureList[1], [2], [3]: one position too far
featureSlotShifted(list, i) ==
  IF i + 1 <= Len(list) /\ list[i + 1] # <<>> THEN list[i + 1] ELSE DefaultLabels[i]

\* lines 771, 776, 781: featureList[i] || default label
featureSlot(list, i) ==
  IF i <= Len(list) /\ list[i] # <<>> THEN list[i] ELSE DefaultLabels[i]

\* line 674 calls .split on info.features when it is truthy: a TypeError
\* unless it is a string
getMockLandingPageThrows(info) ==
  Truthy(info.features) /\ info.features.t # "string"

\* lines 676-820; the style sheet and the fixed text between two
\* interpolations are one chunk each
getMockLandingPage(info, year) ==
  LET list == featureList(info)
  IN  <<"<!DOCTYPE html>", "<title>">> \o Interp(info.name) \o <<" - ">>
      \o Interp(info.description) \o <<"</title>", "<style>", "<div class=\"logo\">">>
      \o Interp(info.name) \o <<"</div>", "<a class=\"nav-btn\">">>
      \o Interp(info.cta) \o <<"</a>", "<div class=\"badge\">", "Welcome to ">>
      \o Interp(info.name) \o <<"</div>", "<h1>">>
      \o Interp(info.description) \o <<"</h1>", "<p>", "We help ">>
      \o Interp(OrDefault(info.targetCustomer, <<"people like you">>))
      \o <<" achieve their goals", "</p>", "<a class=\"cta-btn\">">>
      \o Interp(info.cta) \o <<" ->", "</a>", "<h2>", "Why Choose ">>
      \o Interp(info.name) \o <<"?", "</h2>", "<h3>">>
      \o featureSlot(list, 1) \o <<"</h3>", "<h3>">>
      \o featureSlot(list, 2) \o <<"</h3>", "<h3>">>
      \o featureSlot(list, 3) \o <<"</h3>", "<section class=\"social-proof\">",
          "<section class=\"cta-section\">", "<a class=\"cta-btn\">">>
      \o Interp(info.cta) \o <<" ->", "</a>", "<p class=\"contact-info\">">>
      \o Interp(info.contact) \o <<"</p>", "<footer>", "&copy; ", ToString(year), " ">>
      \o Interp(info.name) \o <<". All rights reserved.", "</footer>", "</html>">>

\* new Date().getFullYear()
Years == {2025, 2026}

\* ------------------------------------------------------------------------
\* Generative collaborator: callGemini, generateRoast, generateLandingPage
\* ------------------------------------------------------------------------
\* the three backticks of a Markdown code fence
Fence == "<fence>"

GeminiTexts ==
  { <<"AI says hi">>,
    <<Fence, "html", "\n", "<!DOCTYPE html>", "\n", Fence>> }

\* How one POST to the collaborator can end
GeminiOutcomes ==
  [kind : {"httpError", "timeout", "malformed"}, text : {<<>>}]
  \cup [kind : {"ok"}, text : {<<>>} \cup GeminiTexts]

\* lines 410-434, after the key test: the text of the first candidate, or
\* null when axios.post rejects or the response has no candidates
callGemini(o) == IF o.kind = "ok" THEN Str(o.text) ELSE Null

\* 'if (result)' of lines 554 and 591 written 'if (result !== null)'
usesGeminiNotNull(result) == truthyDefined(result)

\* lines 554 and 591: if (result)
usesGemini(result) == Truthy(result)

\* lines 594-604
stripFences(text) ==
  LET h0 == trim(text)
      h1 == IF startsWith(h0, <<Fence, "html">>) THEN SubSeq(h0, 3, Len(h0)) ELSE h0
      h2 == IF startsWith(h1, <<Fence>>) THEN Tail(h1) ELSE h1
      h3 == IF endsWith(h2, <<Fence>>) THEN SubSeq(h2, 1, Len(h2) - 1) ELSE h2
  IN  trim(h3)

\* lines 864-867 with positions exchanged: a default put on the wrong field
landingInfoCtaContact(b) ==
  [ name |-> b.name,
    description |-> b.description,
    targetCustomer |-> OrDefault(b.targetCustomer, <<"everyone">>),
    features |-> OrDefault(b.features, <<"Quality service">>),
    cta |-> OrDefault(b.cta, <<"Contact us for more info">>),
    contact |-> OrDefault(b.contact, <<"Get Started">>) ]

\* lines 861-868: the record handed to generateLandingPage
landingInfo(b) ==
  [ name |-> b.name,
    description |-> b.description,
    targetCustomer |-> OrDefault(b.targetCustomer, <<"everyone">>),
    features |-> OrDefault(b.features, <<"Quality service">>),
    cta |-> OrDefault(b.cta, <<"Get Started">>),
    contact |-> OrDefault(b.contact, <<"Contact us for more info">>) ]

\* ------------------------------------------------------------------------
\* Requests and outbound calls
\* ------------------------------------------------------------------------
Reqs == {"r1", "r2"}
MainReqs == {"r1"}

ReportStyles == {"roast", "professional"}
Styles == ReportStyles \cup {"landing"}

\* req.body when express.json() parsed nothing
NoBody ==
  [ defined |-> FALSE, url |-> Undefined, name |-> Undefined,
    description |-> Undefined, targetCustomer |-> Undefined,
    features |-> Undefined, cta |-> Undefined, contact |-> Undefined ]

AnalyzeBodies ==
  {NoBody} \cup { [NoBody EXCEPT !.defined = TRUE, !.url = u] : u \in UrlInputs }

LandingBodies ==
  {NoBody} \cup
  [ defined : {TRUE}, url : {Undefined},
    name : { Undefined, Str(<<>>), Str(<<"Acme">>) },
    description : { Undefined, Str(<<>>), Str(<<"We do things">>) },
    targetCustomer : { Undefined, Str(<<"makers">>) },
    features : { Undefined, Str(<<>>), Num(7),
                 Str(<<"Fast", ",", " ", "Cheap", " ">>),
                 Str(<<"A", ",", " ", ",", "C", ",", "D">>) },
    cta : { Undefined, Str(<<>>), Str(<<"Buy now">>) },
    contact : { Undefined, Str(<<"a@b.c">>) } ]

\* error.message of a rejected axios.get
FetchErrors ==
  { <<"timeout of 10000ms exceeded">>,
    <<"Request failed with status code 404">>,
    <<"getaddrinfo ENOTFOUND a.com">>,
    <<"connect ECONNREFUSED 127.0.0.1:80">> }

NotAFunction == <<"url.startsWith is not a function">>
LoadExpectsString == <<"cheerio.load() expects a string">>

NoOutcome == [kind |-> "none", text |-> <<>>]
NoKey == [kind |-> "noKey", text |-> <<>>]
NoGen == [st |-> "none", outcome |-> NoOutcome, result |-> <<>>]
NoFetch == [st |-> "none", url |-> <<>>, outcome |-> "none",
            success |-> FALSE, error |-> <<>>, analysis |-> <<>>]

\* ---------------------------------------------------------------------
\* The client (src/public/app.js)

\* lines 71-84
getGrade(s) ==
  IF s >= 93 THEN "A" ELSE IF s >= 90 THEN "A-"
  ELSE IF s >= 87 THEN "B+" ELSE IF s >= 83 THEN "B" ELSE IF s >= 80 THEN "B-"
  ELSE IF s >= 77 THEN "C+" ELSE IF s >= 73 THEN "C" ELSE IF s >= 70 THEN "C-"
  ELSE IF s >= 67 THEN "D+" ELSE IF s >= 63 THEN "D" ELSE IF s >= 60 THEN "D-"
  ELSE "F"

\* the chunks that /score|rating/i, /Overall/i and /Grade/i match
ScoreWords == {"score", "Score", "SCORE", "rating", "Rating", "RATING"}
OverallWords == {"overall", "Overall", "OVERALL"}
GradeWords == {"grade", "Grade", "GRADE"}

\* the chunks that [:\s]* runs over
Separators == {":", ": ", " ", "\n", "\n\n"}

\* the chunks that [A-F][+-]? matches under the i flag, in upper case
GradeTokens ==
  {"A+", "A", "A-", "B+", "B", "B-", "C+", "C", "C-", "D+", "D", "D-",
   "E+", "E", "E-", "F+", "F", "F-"}

\* a chunk of one to three digits, and its value
isNumber(c) == \E n \in 0..999 : ToString(n) = c
parseInt(c) == CHOOSE n \in 0..999 : ToString(n) = c

RECURSIVE skipSeparators(_, _)
skipSeparators(s, i) ==
  IF i <= Len(s) /\ s[i] \in Separators THEN skipSeparators(s, i + 1) ELSE i

\* the capture group written (\d{1,2})
captureTwoDigits(n) == IF n >= 100 THEN n \div 10 ELSE n

\* (\d{1,3}) of lines 46-48 on a run of at most three digits
capture(n) == n

\* leftmost match of /(?:words)[:\s]*(\d{1,3})/ from chunk i on: the number
\* captured, -1 without a match
RECURSIVE matchWordNumber(_, _, _)
matchWordNumber(s, words, i) ==
  IF i > Len(s) THEN -1
  ELSE LET j == skipSeparators(s, i + 1)
       IN  IF s[i] \in words /\ j <= Len(s) /\ isNumber(s[j])
             THEN capture(parseInt(s[j]))
             ELSE matchWordNumber(s, words, i + 1)

\* leftmost match of /(\d{1,3})\/100/
RECURSIVE matchOutOf100(_, _)
matchOutOf100(s, i) ==
  IF i >= Len(s) THEN -1
  ELSE IF s[i + 1] = "/100" /\ isNumber(s[i]) THEN capture(parseInt(s[i]))
  ELSE matchOutOf100(s, i + 1)

\* leftmost match of /Grade[:\s]*([A-F][+-]?)/i: the grade captured, "" without
RECURSIVE matchGrade(_, _)
matchGrade(s, i) ==
  IF i > Len(s) THEN ""
  ELSE LET j == skipSeparators(s, i + 1)
       IN  IF s[i] \in GradeWords /\ j <= Len(s) /\ s[j] \in GradeTokens
             THEN s[j] ELSE matchGrade(s, i + 1)

\* lines 57-63
gradeScores ==
  [g \in {"A+", "A", "A-", "B+", "B", "B-", "C+", "C", "C-", "D+", "D", "D-", "F"} |->
     CASE g = "A+" -> 97 [] g = "A" -> 94 [] g = "A-" -> 90
       [] g = "B+" -> 87 [] g = "B" -> 84 [] g = "B-" -> 80
       [] g = "C+" -> 77 [] g = "C" -> 74 [] g = "C-" -> 70
       [] g = "D+" -> 67 [] g = "D" -> 64 [] g = "D-" -> 60
       [] g = "F" -> 50]

\* lines 44-68
extractScore(feedback) ==
  LET m1 == matchWordNumber(feedback, ScoreWords, 1)
      m2 == matchOutOf100(feedback, 1)
      m3 == matchWordNumber(feedback, OverallWords, 1)
      scoreMatch == IF m1 # -1 THEN m1 ELSE IF m2 # -1 THEN m2 ELSE m3
      gradeMatch == matchGrade(feedback, 1)
  IN  IF scoreMatch # -1
        THEN IF scoreMatch > 100 THEN 100 ELSE scoreMatch
      ELSE IF gradeMatch # ""
        THEN IF gradeMatch \in DOMAIN gradeScores
               THEN gradeScores[gradeMatch] ELSE 70
      ELSE 65

\* the score and the grade the results step shows: '--' and '-' at first
NoShown == [score |-> -1, grade |-> "-"]

\* lines 173-175 and 96-104: the animation ends on the extracted score and
\* its grade
shownFor(feedback) ==
  [score |-> extractScore(feedback), grade |-> getGrade(extractScore(feedback))]

VARIABLES
  apiKey,       \* GEMINI_API_KEY is set
  kind,         \* per request: "none", "analyze" or "landing"
  body,         \* per request: req.body
  pc,           \* per request: where its handler is
  resp,         \* per request: the responses sent, in order
  fetchCalls,   \* per request: number of axios.get calls
  fetched,      \* per request: the page fetch and what fetchWebsite returned
  gen,          \* per request and style: the generation call and its result
  settled,      \* per request: the styles in the order their calls settled
  geminiCalls,  \* per request: number of axios.post calls
  mockCalls,    \* per request: calls of getMockResponse / getMockLandingPage
  info,         \* per request: the record handed to generateLandingPage
  pStage, pUrl, pPage, pAnalysis, pReports, \* extractor and grader on their own
  pShown,       \* what the client shows for the reports of pReports
  activeStep,   \* client: the step that is visible
  analysisResults, generatedHTML, currentFeedbackMode, \* client: app.js lines 2-4
  resultsContent, \* client: the report shown in the results step
  shown,        \* client: the score and the grade shown in the results step
  btnAnalyze,   \* client: disabled and loading marks of the Analyze button
  btnSubmit,    \* client: the same of the form's submit button
  analyzeFlight, landingFlight, \* client: fetch calls not yet settled
  toast,        \* client: the last toast shown
  lastEvent     \* client: the handler that ran last

serverVars ==
  <<apiKey, kind, body, pc, resp, fetchCalls, fetched, gen, settled,
    geminiCalls, mockCalls, info>>
pureVars == <<pStage, pUrl, pPage, pAnalysis, pReports, pShown>>
clientVars ==
  <<activeStep, analysisResults, generatedHTML, currentFeedbackMode,
    resultsContent, shown, btnAnalyze, btnSubmit, analyzeFlight, landingFlight,
    toast, lastEvent>>
vars == <<serverVars, pureVars, clientVars>>

NoReports == [st \in ReportStyles |-> <<>>]

ServerIdle ==
  /\ kind = [r \in Reqs |-> "none"]
  /\ body = [r \in Reqs |-> NoBody]
  /\ pc = [r \in Reqs |-> "idle"]
  /\ resp = [r \in Reqs |-> <<>>]
  /\ fetchCalls = [r \in Reqs |-> 0]
  /\ fetched = [r \in Reqs |-> NoFetch]
  /\ gen = [r \in Reqs |-> [st \in Styles |-> NoGen]]
  /\ settled = [r \in Reqs |-> <<>>]
  /\ geminiCalls = [r \in Reqs |-> 0]
  /\ mockCalls = [r \in Reqs |-> 0]
  /\ info = [r \in Reqs |-> landingInfo(NoBody)]

PureIdle ==
  /\ pStage = "off"
  /\ pUrl = <<>>
  /\ pPage = <<>>
  /\ pAnalysis = <<>>
  /\ pReports = NoReports
  /\ pShown = NoShown

\* app.js lines 2-4 and the page as it loads: step 1 visible, both buttons
\* enabled
NoResults == [t |-> "null", roastFeedback |-> <<>>, professionalFeedback |-> <<>>]
Enabled == [disabled |-> FALSE, loading |-> FALSE]
Busy == [disabled |-> TRUE, loading |-> TRUE]

ClientLoaded ==
  /\ activeStep = 1
  /\ analysisResults = NoResults
  /\ generatedHTML = Null
  /\ currentFeedbackMode = "roast"
  /\ resultsContent = <<>>
  /\ shown = NoShown
  /\ btnAnalyze = Enabled
  /\ btnSubmit = Enabled
  /\ analyzeFlight = "none"
  /\ landingFlight = "none"
  /\ toast = <<>>
  /\ lastEvent = "load"

Init ==
  /\ apiKey \in BOOLEAN
  /\ ServerIdle
  /\ PureIdle
  /\ ClientLoaded

\* res.status(status).json(payload)
\* the handler without the res.json of line 841
SendUnlessOk(r, status, payload) ==
  resp' = [resp EXCEPT ![r] =
    IF status = 200 THEN @ ELSE Append(@, [status |-> status, body |-> payload])]

Send(r, status, payload) ==
  resp' = [resp EXCEPT ![r] = Append(@, [status |-> status, body |-> payload])]

Done(r) == pc' = [pc EXCEPT ![r] = "done"]

\* line 833 with a prefix added to the message
fetchErrorBodyPrefixed(error) == [error |-> <<"Fetch failed: ">> \o error]

\* line 833: { error: result.error }
fetchErrorBody(error) == [error |-> error]

\* Promise.all filling its array in the order the calls settle
promiseAllBySettling(results, order) == <<results[order[1]], results[order[2]]>>

\* lines 836-839: Promise.all keeps the positions of its arguments
promiseAll(results, order) == <<results["roast"], results["professional"]>>

\* lines 552-559
generateRoast(a, style, result) ==
  IF usesGemini(result) THEN result.v ELSE getMockResponse(a, style)

\* lines 841-846
analyzeSuccess(a, results, order) ==
  LET fb == promiseAll(results, order)
  IN  [ success |-> TRUE, analysis |-> a,
        roastFeedback |-> fb[1], professionalFeedback |-> fb[2] ]

\* POST /api/analyze arrives: lines 824-831 and, through fetchWebsite,
\* lines 437-448
AnalyzeRequest(r, b) ==
  /\ pc[r] = "idle"
  /\ kind' = [kind EXCEPT ![r] = "analyze"]
  /\ body' = [body EXCEPT ![r] = b]
  /\ IF ~b.defined
       THEN \* destructuring undefined throws; caught at line 847
            /\ Send(r, 500, [error |-> <<"Failed to analyze website">>])
            /\ Done(r)
            /\ UNCHANGED <<fetchCalls, fetched>>
     ELSE IF ~Truthy(b.url)
       THEN /\ Send(r, 400, [error |-> <<"URL is required">>])
            /\ Done(r)
            /\ UNCHANGED <<fetchCalls, fetched>>
     ELSE IF b.url.t # "string"
       THEN \* url.startsWith throws inside the try of fetchWebsite
            /\ fetched' = [fetched EXCEPT ![r] =
                 [NoFetch EXCEPT !.st = "settled", !.outcome = "threw",
                                 !.error = NotAFunction]]
            /\ Send(r, 400, fetchErrorBody(NotAFunction))
            /\ Done(r)
            /\ UNCHANGED fetchCalls
     ELSE /\ fetchCalls' = [fetchCalls EXCEPT ![r] = @ + 1]
          /\ fetched' = [fetched EXCEPT ![r] =
               [NoFetch EXCEPT !.st = "pending", !.url = normalizeUrl(b.url.v)]]
          /\ pc' = [pc EXCEPT ![r] = "awaitFetch"]
          /\ UNCHANGED resp
  /\ UNCHANGED <<apiKey, gen, settled, geminiCalls, mockCalls, info, pureVars, clientVars>>

\* axios.get rejects: lines 472-474, 832-834
FetchFail(r, msg) ==
  /\ pc[r] = "awaitFetch"
  /\ fetched' = [fetched EXCEPT ![r] =
       [@ EXCEPT !.st = "settled", !.outcome = "failed", !.error = msg]]
  /\ Send(r, 400, fetchErrorBody(msg))
  /\ Done(r)
  /\ UNCHANGED <<apiKey, kind, body, fetchCalls, gen, settled, geminiCalls,
                 mockCalls, info, pureVars, clientVars>>

\* axios.get resolves with data cheerio.load rejects (a JSON null body):
\* the throw is inside the same try, lines 450, 472-474, 832-834
FetchUnparseable(r) ==
  /\ pc[r] = "awaitFetch"
  /\ fetched' = [fetched EXCEPT ![r] =
       [@ EXCEPT !.st = "settled", !.outcome = "unparseable",
                 !.error = LoadExpectsString]]
  /\ Send(r, 400, fetchErrorBody(LoadExpectsString))
  /\ Done(r)
  /\ UNCHANGED <<apiKey, kind, body, fetchCalls, gen, settled, geminiCalls,
                 mockCalls, info, pureVars, clientVars>>

\* axios.get resolves with markup: lines 450-471, then lines 836-846.
\* Without an API key callGemini returns null at once, both reports come
\* from getMockResponse and the response is sent in the same task.
FetchOk(r, page) ==
  /\ pc[r] = "awaitFetch"
  /\ LET a == extract(fetched[r].url, page)
     IN  /\ fetched' = [fetched EXCEPT ![r] =
               [@ EXCEPT !.st = "settled", !.outcome = "ok",
                         !.success = TRUE, !.analysis = a]]
         /\ IF ~apiKey
              THEN LET g == [st \in Styles |->
                              IF st \in ReportStyles
                                THEN [st |-> "done", outcome |-> NoKey,
                                      result |-> generateRoast(a, st, Null)]
                                ELSE NoGen]
                       order == <<"roast", "professional">>
                   IN  /\ gen' = [gen EXCEPT ![r] = g]
                       /\ settled' = [settled EXCEPT ![r] = order]
                       /\ mockCalls' = [mockCalls EXCEPT ![r] = @ + 2]
                       /\ Send(r, 200, analyzeSuccess(a,
                            [st \in ReportStyles |-> g[st].result], order))
                       /\ Done(r)
                       /\ UNCHANGED geminiCalls
              ELSE /\ gen' = [gen EXCEPT ![r] =
                        [st \in Styles |->
                          IF st \in ReportStyles
                            THEN [NoGen EXCEPT !.st = "pending"] ELSE NoGen]]
                   /\ geminiCalls' = [geminiCalls EXCEPT ![r] = @ + 2]
                   /\ pc' = [pc EXCEPT ![r] = "awaitAll"]
                   /\ UNCHANGED <<settled, mockCalls, resp>>
  /\ UNCHANGED <<apiKey, kind, body, fetchCalls, info, pureVars, clientVars>>

\* axios.post of one generateRoast call settles: lines 429-433, 554-559;
\* when it is the second one, Promise.all resolves: lines 836-846
\* line 831 written 'result = await fetchWebsite(url)': an implicit global
\* that a later request's fetch overwrites
analysisOfLatest(r) ==
  LET fetchers == {q \in Reqs : fetched[q].success}
  IN  fetched[CHOOSE q \in fetchers : \A p \in fetchers : p = q \/ q # "r1"].analysis

\* lines 831, 838-839: result.analysis of the handler's own const result
analysisOf(r) == fetched[r].analysis

GeminiSettleReport(r, style, o) ==
  /\ pc[r] = "awaitAll"
  /\ style \in ReportStyles
  /\ gen[r][style].st = "pending"
  /\ LET a == analysisOf(r)
         result == callGemini(o)
         g == [gen[r] EXCEPT ![style] =
                [st |-> "done", outcome |-> o,
                 result |-> generateRoast(a, style, result)]]
         order == Append(settled[r], style)
     IN  /\ gen' = [gen EXCEPT ![r] = g]
         /\ settled' = [settled EXCEPT ![r] = order]
         /\ mockCalls' = [mockCalls EXCEPT ![r] =
              IF usesGemini(result) THEN @ ELSE @ + 1]
         /\ IF \A st \in ReportStyles : g[st].st = "done"
              THEN /\ Send(r, 200, analyzeSuccess(a,
                        [st \in ReportStyles |-> g[st].result], order))
                   /\ Done(r)
              ELSE UNCHANGED <<resp, pc>>
  /\ UNCHANGED <<apiKey, kind, body, fetchCalls, fetched, geminiCalls, info,
                 pureVars, clientVars>>

\* generateLandingPage from 'if (result)' on (lines 591-610) and the end of
\* the route (lines 870-874)
LandingFinish(r, i, o, result, y) ==
  IF usesGemini(result)
    THEN /\ gen' = [gen EXCEPT ![r]["landing"] =
              [st |-> "done", outcome |-> o, result |-> stripFences(result.v)]]
         /\ Send(r, 200, [success |-> TRUE, html |-> stripFences(result.v)])
         /\ UNCHANGED mockCalls
    ELSE /\ mockCalls' = [mockCalls EXCEPT ![r] = @ + 1]
         /\ IF getMockLandingPageThrows(i)
              THEN /\ gen' = [gen EXCEPT ![r]["landing"] =
                        [st |-> "threw", outcome |-> o, result |-> <<>>]]
                   /\ Send(r, 500, [error |-> <<"Failed to generate landing page">>])
              ELSE /\ gen' = [gen EXCEPT ![r]["landing"] =
                        [st |-> "done", outcome |-> o,
                         result |-> getMockLandingPage(i, y)]]
                   /\ Send(r, 200, [success |-> TRUE,
                                    html |-> getMockLandingPage(i, y)])

\* POST /api/generate-landing arrives: lines 853-868, 563-589
LandingRequest(r, b, y) ==
  /\ pc[r] = "idle"
  /\ kind' = [kind EXCEPT ![r] = "landing"]
  /\ body' = [body EXCEPT ![r] = b]
  /\ IF ~b.defined
       THEN /\ Send(r, 500, [error |-> <<"Failed to generate landing page">>])
            /\ Done(r)
            /\ UNCHANGED <<info, gen, geminiCalls, mockCalls>>
     ELSE IF ~Truthy(b.name) \/ ~Truthy(b.description)
       THEN /\ Send(r, 400,
                 [error |-> <<"Business name and description are required">>])
            /\ Done(r)
            /\ UNCHANGED <<info, gen, geminiCalls, mockCalls>>
     ELSE /\ info' = [info EXCEPT ![r] = landingInfo(b)]
          /\ IF ~apiKey
               THEN /\ LandingFinish(r, landingInfo(b), NoKey, Null, y)
                    /\ Done(r)
                    /\ UNCHANGED geminiCalls
               ELSE /\ gen' = [gen EXCEPT ![r]["landing"] =
                         [NoGen EXCEPT !.st = "pending"]]
                    /\ geminiCalls' = [geminiCalls EXCEPT ![r] = @ + 1]
                    /\ pc' = [pc EXCEPT ![r] = "awaitLanding"]
                    /\ UNCHANGED <<resp, mockCalls>>
  /\ UNCHANGED <<apiKey, fetchCalls, fetched, settled, pureVars, clientVars>>

\* axios.post of generateLandingPage settles: lines 429-433, 591-610, 870-874
GeminiSettleLanding(r, o, y) ==
  /\ pc[r] = "awaitLanding"
  /\ gen[r]["landing"].st = "pending"
  /\ LandingFinish(r, info[r], o, callGemini(o), y)
  /\ Done(r)
  /\ UNCHANGED <<apiKey, kind, body, fetchCalls, fetched, settled, geminiCalls,
                 info, pureVars, clientVars>>

Next ==
  \E r \in MainReqs :
    \/ \E b \in AnalyzeBodies : AnalyzeRequest(r, b)
    \/ \E m \in FetchErrors : FetchFail(r, m)
    \/ FetchUnparseable(r)
    \/ \E p \in Pages : FetchOk(r, p)
    \/ \E st \in ReportStyles, o \in GeminiOutcomes : GeminiSettleReport(r, st, o)
    \/ \E b \in LandingBodies, y \in Years : LandingRequest(r, b, y)
    \/ \E o \in GeminiOutcomes, y \in Years : GeminiSettleLanding(r, o, y)

Spec == Init /\ [][Next]_vars

\* The pages and the landing requests of the specification with fairness
FairPages ==
  { p \in Pages :
      /\ p.title = <<"Acme">> /\ p.metaContent = Undefined
      /\ p.h1 = <<>> /\ p.imgs = [noAlt |-> 0, emptyAlt |-> 0, withAlt |-> 0]
      /\ p.iconLinks = 0 /\ p.scripts = 0 }

FairLandingBodies ==
  { b \in LandingBodies :
      /\ b.targetCustomer = Undefined /\ b.cta = Undefined
      /\ b.contact = Undefined /\ b.description # Str(<<>>)
      /\ b.name # Str(<<>>) }

\* An outbound call of request r settles: axios.get has a timeout of 10 s
\* (line 443) and axios.post one of 30 s (line 427), so each call settles
Settle(r) ==
  \/ \E m \in FetchErrors : FetchFail(r, m)
  \/ FetchUnparseable(r)
  \/ \E p \in FairPages : FetchOk(r, p)
  \/ \E st \in ReportStyles, o \in GeminiOutcomes : GeminiSettleReport(r, st, o)
  \/ \E o \in GeminiOutcomes, y \in Years : GeminiSettleLanding(r, o, y)

\* a request arrives
Arrive(r) ==
  \/ \E b \in AnalyzeBodies : AnalyzeRequest(r, b)
  \/ \E b \in FairLandingBodies, y \in Years : LandingRequest(r, b, y)

NextFair == \E r \in MainReqs : Arrive(r) \/ Settle(r)

SpecFair ==
  Init /\ [][NextFair]_vars /\ \A r \in MainReqs : WF_vars(Settle(r))

\* Two requests handled concurrently: every handler step of either request
\* may run between two steps of the other.
ConcAnalyzeBodies ==
  { [NoBody EXCEPT !.defined = TRUE, !.url = u] :
      u \in {Undefined, Str(<<"a.com">>), Str(<<"http", "://", "a.com">>)} }

ConcPages ==
  { p \in Pages :
      /\ p.title = <<"Acme">> /\ p.metaContent = Undefined
      /\ p.h1 = <<>> /\ p.imgs = [noAlt |-> 0, emptyAlt |-> 0, withAlt |-> 0]
      /\ p.iconLinks = 0 /\ p.scripts = 0 }

ConcOutcomes ==
  { o \in GeminiOutcomes : o.kind = "timeout" \/ o.text = <<"AI says hi">> }

ConcLandingBodies ==
  { b \in LandingBodies :
      /\ b.defined /\ b.description = Str(<<"We do things">>)
      /\ b.name \in {Undefined, Str(<<"Acme">>)}
      /\ b.targetCustomer = Undefined /\ b.cta = Undefined
      /\ b.contact = Undefined
      /\ b.features \in {Undefined, Str(<<"Fast", ",", " ", "Cheap", " ">>)} }

ConcFetchErrors == { <<"timeout of 10000ms exceeded">> }

NextConc ==
  \E r \in Reqs :
    \/ \E b \in ConcAnalyzeBodies : AnalyzeRequest(r, b)
    \/ \E m \in ConcFetchErrors : FetchFail(r, m)
    \/ FetchUnparseable(r)
    \/ \E p \in ConcPages : FetchOk(r, p)
    \/ \E st \in ReportStyles, o \in ConcOutcomes : GeminiSettleReport(r, st, o)
    \/ \E b \in ConcLandingBodies, y \in Years : LandingRequest(r, b, y)
    \/ \E o \in ConcOutcomes, y \in Years : GeminiSettleLanding(r, o, y)

SpecConc == Init /\ [][NextConc]_vars

\* ------------------------------------------------------------------------
\* The extractor and the grader on their own: every URL and page of the
\* model is extracted, then graded in both styles
\* ------------------------------------------------------------------------
InitPure ==
  /\ apiKey = FALSE
  /\ ServerIdle
  /\ pStage = "input"
  /\ pUrl \in StringUrls
  /\ pPage \in Pages
  /\ pAnalysis = <<>>
  /\ pReports = NoReports
  /\ pShown = NoShown
  /\ ClientLoaded

\* fetchWebsite, lines 439-441 and 452-469
Extract ==
  /\ pStage = "input"
  /\ pStage' = "extracted"
  /\ pAnalysis' = extract(normalizeUrl(pUrl), pPage)
  /\ UNCHANGED <<pUrl, pPage, pReports, pShown, serverVars, clientVars>>

\* getMockResponse(analysis, style), lines 614-670
Grade(style) ==
  /\ pStage = "extracted"
  /\ pReports[style] = <<>>
  /\ pReports' = [pReports EXCEPT ![style] = getMockResponse(pAnalysis, style)]
  /\ UNCHANGED <<pStage, pUrl, pPage, pAnalysis, pShown, serverVars, clientVars>>

\* app.js lines 172-175: the client reads the score out of the professional
\* report of the response and shows it with its grade
Display ==
  /\ \A style \in ReportStyles : pReports[style] # <<>>
  /\ pShown = NoShown
  /\ pShown' = shownFor(pReports["professional"])
  /\ UNCHANGED <<pStage, pUrl, pPage, pAnalysis, pReports, serverVars, clientVars>>

NextPure == Extract \/ (\E style \in ReportStyles : Grade(style)) \/ Display

SpecPure == InitPure /\ [][NextPure]_vars

\* ---------------------------------------------------------------------
\* The client's handlers (src/public/app.js). The user acts on the controls
\* of the visible step; a handler runs to its first await, and its
\* continuation runs when the fetch settles.

\* what the user may have typed into the URL box
UrlTexts == { <<>>, <<" ">>, <<" ", "a.com">> }

\* the bodies of successful /api/analyze responses
AnalyzeResponses ==
  { [t |-> "object",
     roastFeedback |-> getMockResponse(a, "roast"),
     professionalFeedback |-> getMockResponse(a, "professional")] :
      a \in {extract(normalizeUrl(<<"a.com">>), p) : p \in FairPages} }
  \cup { [t |-> "object", roastFeedback |-> <<"AI says hi">>,
          professionalFeedback |-> <<"AI says hi">>] }

\* error.message of a failed analyzeWebsite: the error of a 400 or 500
\* response, or the fetch's own
AnalyzeErrors ==
  { <<"getaddrinfo ENOTFOUND a.com">>, <<"Failed to analyze website">>,
    <<"Failed to fetch">> }

\* result.html of successful /api/generate-landing responses
LandingResponses ==
  { <<"<!DOCTYPE html>">>,
    getMockLandingPage(landingInfo([NoBody EXCEPT !.defined = TRUE,
      !.name = Str(<<"Acme">>), !.description = Str(<<"We do things">>)]), 2026) }

LandingErrors ==
  { <<"Business name and description are required">>,
    <<"Failed to generate landing page">> }

\* lines 141-158
ClickAnalyze(u) ==
  /\ activeStep = 1
  /\ ~btnAnalyze.disabled
  /\ IF trim(u) = <<>>
       THEN /\ toast' = <<"Please enter a URL">>
            /\ lastEvent' = "analyzeEmpty"
            /\ UNCHANGED <<btnAnalyze, analyzeFlight>>
       ELSE /\ btnAnalyze' = Busy
            /\ analyzeFlight' = "pending"
            /\ lastEvent' = "analyzeClick"
            /\ UNCHANGED toast
  /\ UNCHANGED <<activeStep, analysisResults, generatedHTML, currentFeedbackMode,
                 resultsContent, shown, btnSubmit, landingFlight,
                 serverVars, pureVars>>

\* lines 161-175 and 179-182: analyzeWebsite resolved
AnalyzeResolved(res) ==
  /\ analyzeFlight = "pending"
  /\ analyzeFlight' = "none"
  /\ analysisResults' = res
  /\ resultsContent' = res.roastFeedback
  /\ currentFeedbackMode' = "roast"
  /\ shown' = shownFor(res.professionalFeedback)
  /\ activeStep' = 2
  /\ btnAnalyze' = Enabled
  /\ lastEvent' = "analyzeResolved"
  /\ UNCHANGED <<generatedHTML, btnSubmit, landingFlight, toast,
                 serverVars, pureVars>>

\* lines 177-182 with the re-enabling at the end of the try block
AnalyzeRejectedStaysBusy(msg) ==
  /\ analyzeFlight = "pending"
  /\ analyzeFlight' = "none"
  /\ toast' = msg
  /\ lastEvent' = "analyzeRejected"
  /\ UNCHANGED <<activeStep, analysisResults, generatedHTML, currentFeedbackMode,
                 resultsContent, shown, btnAnalyze, btnSubmit, landingFlight,
                 serverVars, pureVars>>

\* lines 177-182 with 'analysisResults = null' in the catch block
AnalyzeRejectedForgets(msg) ==
  /\ analyzeFlight = "pending"
  /\ analyzeFlight' = "none"
  /\ toast' = msg
  /\ analysisResults' = NoResults
  /\ btnAnalyze' = Enabled
  /\ lastEvent' = "analyzeRejected"
  /\ UNCHANGED <<activeStep, generatedHTML, currentFeedbackMode,
                 resultsContent, shown, btnSubmit, landingFlight,
                 serverVars, pureVars>>

\* lines 115-118 and 177-182: analyzeWebsite threw
AnalyzeRejected(msg) ==
  /\ analyzeFlight = "pending"
  /\ analyzeFlight' = "none"
  /\ toast' = msg
  /\ btnAnalyze' = Enabled
  /\ lastEvent' = "analyzeRejected"
  /\ UNCHANGED <<activeStep, analysisResults, generatedHTML, currentFeedbackMode,
                 resultsContent, shown, btnSubmit, landingFlight,
                 serverVars, pureVars>>

\* lines 193-195
ClickNoWebsite ==
  /\ activeStep = 1
  /\ activeStep' = 3
  /\ lastEvent' = "noWebsite"
  /\ UNCHANGED <<analysisResults, generatedHTML, currentFeedbackMode,
                 resultsContent, shown, btnAnalyze, btnSubmit, analyzeFlight,
                 landingFlight, toast, serverVars, pureVars>>

\* lines 198-214
ClickMode(mode) ==
  /\ activeStep = 2
  /\ IF currentFeedbackMode # mode /\ analysisResults.t # "null"
       THEN /\ resultsContent' =
                 IF mode = "roast" THEN analysisResults.roastFeedback
                                   ELSE analysisResults.professionalFeedback
            /\ currentFeedbackMode' = mode
       ELSE UNCHANGED <<resultsContent, currentFeedbackMode>>
  /\ lastEvent' = "mode"
  /\ UNCHANGED <<activeStep, analysisResults, generatedHTML, shown, btnAnalyze,
                 btnSubmit, analyzeFlight, landingFlight, toast,
                 serverVars, pureVars>>

\* lines 216-218
ClickBuildLanding ==
  /\ activeStep = 2
  /\ activeStep' = 3
  /\ lastEvent' = "buildLanding"
  /\ UNCHANGED <<analysisResults, generatedHTML, currentFeedbackMode,
                 resultsContent, shown, btnAnalyze, btnSubmit, analyzeFlight,
                 landingFlight, toast, serverVars, pureVars>>

\* lines 220-223
ClickTryAnother ==
  /\ activeStep = 2
  /\ activeStep' = 1
  /\ lastEvent' = "tryAnother"
  /\ UNCHANGED <<analysisResults, generatedHTML, currentFeedbackMode,
                 resultsContent, shown, btnAnalyze, btnSubmit, analyzeFlight,
                 landingFlight, toast, serverVars, pureVars>>

\* lines 226-243
SubmitLanding ==
  /\ activeStep = 3
  /\ ~btnSubmit.disabled
  /\ btnSubmit' = Busy
  /\ landingFlight' = "pending"
  /\ lastEvent' = "submit"
  /\ UNCHANGED <<activeStep, analysisResults, generatedHTML, currentFeedbackMode,
                 resultsContent, shown, btnAnalyze, analyzeFlight, toast,
                 serverVars, pureVars>>

\* lines 243-254 and 257-260: generateLandingPage resolved
LandingResolved(html) ==
  /\ landingFlight = "pending"
  /\ landingFlight' = "none"
  /\ generatedHTML' = Str(html)
  /\ activeStep' = 4
  /\ btnSubmit' = Enabled
  /\ lastEvent' = "landingResolved"
  /\ UNCHANGED <<analysisResults, currentFeedbackMode, resultsContent, shown,
                 btnAnalyze, analyzeFlight, toast, serverVars, pureVars>>

\* lines 130-133 and 255-260: generateLandingPage threw
LandingRejected(msg) ==
  /\ landingFlight = "pending"
  /\ landingFlight' = "none"
  /\ toast' = msg
  /\ btnSubmit' = Enabled
  /\ lastEvent' = "landingRejected"
  /\ UNCHANGED <<activeStep, analysisResults, generatedHTML, currentFeedbackMode,
                 resultsContent, shown, btnAnalyze, analyzeFlight,
                 serverVars, pureVars>>

\* lines 263-269
ClickBackForm ==
  /\ activeStep = 3
  /\ activeStep' = IF analysisResults.t # "null" THEN 2 ELSE 1
  /\ lastEvent' = "backForm"
  /\ UNCHANGED <<analysisResults, generatedHTML, currentFeedbackMode,
                 resultsContent, shown, btnAnalyze, btnSubmit, analyzeFlight,
                 landingFlight, toast, serverVars, pureVars>>

\* lines 272-289
ClickDownload ==
  /\ activeStep = 4
  /\ Truthy(generatedHTML)
  /\ toast' = <<"Downloaded!">>
  /\ lastEvent' = "download"
  /\ UNCHANGED <<activeStep, analysisResults, generatedHTML, currentFeedbackMode,
                 resultsContent, shown, btnAnalyze, btnSubmit, analyzeFlight,
                 landingFlight, serverVars, pureVars>>

\* lines 291-300: the clipboard write succeeds or fails
ClickCopy(ok) ==
  /\ activeStep = 4
  /\ Truthy(generatedHTML)
  /\ toast' = IF ok THEN <<"Copied to clipboard!">> ELSE <<"Failed to copy">>
  /\ lastEvent' = "copy"
  /\ UNCHANGED <<activeStep, analysisResults, generatedHTML, currentFeedbackMode,
                 resultsContent, shown, btnAnalyze, btnSubmit, analyzeFlight,
                 landingFlight, serverVars, pureVars>>

\* lines 302-311
ClickStartOver ==
  /\ activeStep = 4
  /\ analysisResults' = NoResults
  /\ generatedHTML' = Null
  /\ shown' = NoShown
  /\ activeStep' = 1
  /\ lastEvent' = "startOver"
  /\ UNCHANGED <<currentFeedbackMode, resultsContent, btnAnalyze, btnSubmit,
                 analyzeFlight, landingFlight, toast, serverVars, pureVars>>

NextClient ==
  \/ \E u \in UrlTexts : ClickAnalyze(u)
  \/ \E res \in AnalyzeResponses : AnalyzeResolved(res)
  \/ \E msg \in AnalyzeErrors : AnalyzeRejected(msg)
  \/ ClickNoWebsite
  \/ \E mode \in ReportStyles : ClickMode(mode)
  \/ ClickBuildLanding
  \/ ClickTryAnother
  \/ SubmitLanding
  \/ \E html \in LandingResponses : LandingResolved(html)
  \/ \E msg \in LandingErrors : LandingRejected(msg)
  \/ ClickBackForm
  \/ ClickDownload
  \/ \E ok \in BOOLEAN : ClickCopy(ok)
  \/ ClickStartOver

InitClient ==
  /\ apiKey = FALSE
  /\ ServerIdle
  /\ PureIdle
  /\ ClientLoaded

SpecClient == InitClient /\ [][NextClient]_vars

\* ------------------------------------------------------------------------
\* Properties
\* ------------------------------------------------------------------------
Blank(x) == x \in {Undefined, Str(<<>>)}

NoGeneration(r) ==
  /\ geminiCalls[r] = 0
  /\ mockCalls[r] = 0
  /\ settled[r] = <<>>
  /\ \A st \in Styles : gen[r][st].st = "none"

\* C1: POST /api/analyze whose body has a missing or empty url ends in one
\* 400 response with an error body; no page fetch and no report generation
\* is started for it.
C1_MissingUrlRejected ==
  \A r \in Reqs :
    (kind[r] = "analyze" /\ body[r].defined /\ Blank(body[r].url)) =>
      /\ pc[r] = "done"
      /\ Len(resp[r]) = 1
      /\ resp[r][1].status = 400
      /\ DOMAIN resp[r][1].body = {"error"}
      /\ resp[r][1].body.error # <<>>
      /\ fetchCalls[r] = 0
      /\ fetched[r].st = "none"
      /\ NoGeneration(r)

C1_Witness ==
  \E r \in Reqs :
    /\ kind[r] = "analyze" /\ body[r].defined /\ body[r].url = Str(<<>>)
    /\ pc[r] = "done" /\ Len(resp[r]) = 1

\* C2: a failed page fetch is terminal: one fetch attempt was made, the
\* response is 400 with the fetch error's message unchanged as `error`, and
\* no report generation is started.  No request ever fetches twice.
C2_FetchFailureTerminal ==
  \A r \in Reqs :
    /\ fetchCalls[r] <= 1
    /\ fetched[r].outcome = "failed" =>
         /\ fetchCalls[r] = 1
         /\ pc[r] = "done"
         /\ resp[r] = <<[status |-> 400, body |-> [error |-> fetched[r].error]]>>
         /\ NoGeneration(r)

C2_Witness ==
  \E r \in Reqs :
    /\ fetched[r].outcome = "failed"
    /\ fetched[r].error = <<"timeout of 10000ms exceeded">>
    /\ Len(resp[r]) = 1

Sent200(r) == \E i \in 1..Len(resp[r]) : resp[r][i].status = 200

\* C3: in /api/analyze the two report computations settle in either order;
\* nothing is sent while one of them is pending, and the 200 response holds
\* the roast result in roastFeedback and the professional result in
\* professionalFeedback whichever settled first.
C3_BothReportsThenResponse ==
  \A r \in Reqs :
    kind[r] = "analyze" =>
      /\ (\E st \in ReportStyles : gen[r][st].st = "pending") => resp[r] = <<>>
      /\ Sent200(r) =>
           /\ \A st \in ReportStyles : gen[r][st].st = "done"
           /\ resp[r] =
                <<[ status |-> 200,
                    body |-> [ success |-> TRUE,
                               analysis |-> fetched[r].analysis,
                               roastFeedback |-> gen[r]["roast"].result,
                               professionalFeedback |-> gen[r]["professional"].result ] ]>>

C3_Witness ==
  \E r \in Reqs :
    /\ kind[r] = "analyze" /\ Sent200(r)
    /\ settled[r] = <<"professional", "roast">>
    /\ gen[r]["roast"].result # gen[r]["professional"].result

\* an outcome of the collaborator that yields no text
Unusable(o) == o.kind \in {"noKey", "httpError", "timeout", "malformed"}
               \/ (o.kind = "ok" /\ o.text = <<>>)

\* C4: after a successful page fetch, every outcome of the collaborator that
\* yields no text (no key, HTTP error, timeout, malformed or empty response)
\* makes that style's report the heuristic report, independently for the
\* two styles; the request ends in a 200 response without an error field.
C4_CollaboratorFailureFallsBack ==
  \A r \in Reqs :
    (kind[r] = "analyze" /\ fetched[r].success) =>
      /\ \A st \in ReportStyles :
           (gen[r][st].st = "done" /\ Unusable(gen[r][st].outcome)) =>
             gen[r][st].result = getMockResponse(fetched[r].analysis, st)
      /\ pc[r] = "done" =>
           /\ Len(resp[r]) = 1
           /\ resp[r][1].status = 200
           /\ "error" \notin DOMAIN resp[r][1].body
           /\ Unusable(gen[r]["roast"].outcome) =>
                resp[r][1].body.roastFeedback
                  = getMockResponse(fetched[r].analysis, "roast")
           /\ Unusable(gen[r]["professional"].outcome) =>
                resp[r][1].body.professionalFeedback
                  = getMockResponse(fetched[r].analysis, "professional")

C4_Witness ==
  \E r \in Reqs :
    /\ kind[r] = "analyze" /\ fetched[r].success /\ pc[r] = "done"
    /\ gen[r]["roast"].outcome = [kind |-> "ok", text |-> <<>>]
    /\ gen[r]["professional"].outcome.kind = "ok"
    /\ gen[r]["professional"].outcome.text # <<>>

GenericAnalyzeError == [error |-> <<"Failed to analyze website">>]

\* C5: an exception in /api/analyze that is neither the missing-url
\* validation error nor a network error of the page fetch (a non-string url,
\* a failure while parsing the fetched markup, a missing body) ends in 500
\* with the generic body, so the exception's message is never sent.
C5_InternalErrorIsGeneric500 ==
  \A r \in Reqs :
    ( /\ kind[r] = "analyze"
      /\ pc[r] = "done"
      /\ \/ ~body[r].defined
         \/ fetched[r].outcome \in {"threw", "unparseable"} ) =>
      resp[r] = <<[status |-> 500, body |-> GenericAnalyzeError]>>

LandingDefaults ==
  [ targetCustomer |-> <<"everyone">>, features |-> <<"Quality service">>,
    cta |-> <<"Get Started">>, contact |-> <<"Contact us for more info">> ]

\* C6: POST /api/generate-landing with name or description missing or empty
\* ends in 400 and calls neither the collaborator nor the template renderer;
\* when both are present, a blank targetCustomer, features, cta or contact
\* has been replaced by its default in the record used for generation, and
\* a non-blank one is passed on as it is.
C6_LandingValidationAndDefaults ==
  \A r \in Reqs :
    (kind[r] = "landing" /\ body[r].defined) =>
      IF Blank(body[r].name) \/ Blank(body[r].description)
        THEN /\ pc[r] = "done"
             /\ Len(resp[r]) = 1
             /\ resp[r][1].status = 400
             /\ NoGeneration(r)
        ELSE /\ info[r].name = body[r].name
             /\ info[r].description = body[r].description
             /\ \A f \in DOMAIN LandingDefaults :
                  info[r][f] = IF Blank(body[r][f]) THEN Str(LandingDefaults[f])
                                                     ELSE body[r][f]
             /\ gen[r]["landing"].st # "none"

C6_Witness ==
  \E r \in Reqs :
    /\ kind[r] = "landing" /\ body[r].defined
    /\ ~Blank(body[r].name) /\ ~Blank(body[r].description)
    /\ body[r].cta = Str(<<>>) /\ body[r].contact = Undefined
    /\ body[r].targetCustomer = Str(<<"makers">>)
    /\ gen[r]["landing"].st = "pending"

OnlyNameAndDescription(r) ==
  /\ kind[r] = "landing" /\ body[r].defined
  /\ Truthy(body[r].name) /\ Truthy(body[r].description)
  /\ \A f \in DOMAIN LandingDefaults : body[r][f] = Undefined

\* the three feature headings of a page, in order
ShowsLabels(html, l1, l2, l3) ==
  Contains(html, <<"<h3>">> \o l1 \o <<"</h3>", "<h3>">> \o l2
                 \o <<"</h3>", "<h3>">> \o l3 \o <<"</h3>">>)

\* C7 as stated: with only name and description supplied the response is 200
\* with HTML that contains the name, the default call-to-action text and the
\* default feature labels (the first label in either spelling the code has).
C7_OnlyNameDescriptionAlways ==
  \A r \in Reqs :
    (OnlyNameAndDescription(r) /\ pc[r] = "done") =>
      /\ Len(resp[r]) = 1
      /\ resp[r][1].status = 200
      /\ Contains(resp[r][1].body.html, body[r].name.v)
      /\ Contains(resp[r][1].body.html, <<"Get Started">>)
      /\ \/ ShowsLabels(resp[r][1].body.html, <<"Quality service">>,
                        DefaultLabels[2], DefaultLabels[3])
         \/ ShowsLabels(resp[r][1].body.html, DefaultLabels[1],
                        DefaultLabels[2], DefaultLabels[3])

\* C7 (amended): with only name and description supplied, when the
\* collaborator yields no text the response is 200 with the template page,
\* which contains the name, the default call-to-action text 'Get Started' on
\* its buttons, and the feature labels 'Quality service' (the default
\* features value), 'Fast & Reliable' and 'Premium Experience'; when the
\* collaborator yields text the response is 200 with that text, fences
\* stripped.
C7_OnlyNameDescriptionTemplate ==
  \A r \in Reqs :
    (OnlyNameAndDescription(r) /\ pc[r] = "done") =>
      /\ Len(resp[r]) = 1
      /\ resp[r][1].status = 200
      /\ IF Unusable(gen[r]["landing"].outcome)
           THEN /\ Contains(resp[r][1].body.html,
                            <<"<title>">> \o body[r].name.v)
                /\ Contains(resp[r][1].body.html,
                            <<"<a class=\"nav-btn\">", "Get Started", "</a>">>)
                /\ Contains(resp[r][1].body.html,
                            <<"<a class=\"cta-btn\">", "Get Started", " ->">>)
                /\ ShowsLabels(resp[r][1].body.html, <<"Quality service">>,
                               DefaultLabels[2], DefaultLabels[3])
           ELSE resp[r][1].body.html
                  = stripFences(gen[r]["landing"].outcome.text)

C7_Witness ==
  \E r \in Reqs :
    /\ OnlyNameAndDescription(r) /\ pc[r] = "done"
    /\ gen[r]["landing"].outcome.kind = "timeout"
    /\ resp[r][1].status = 200

\* the number and the letter printed in a report's header line
toInt(s) == CHOOSE n \in 0..999 : ToString(n) = s
headerScore(report) == report[4]
headerGrade(report) == report[9]

\* C8: the score the heuristic grader prints in a report is an integer
\* between 0 and 100, for every signal record and both styles.
C8_ScoreInRange ==
  \A st \in ReportStyles :
    pReports[st] # <<>> =>
      \E n \in 0..100 : headerScore(pReports[st]) = ToString(n)

C8_Witness ==
  /\ pReports["roast"] # <<>>
  /\ headerScore(pReports["roast"]) = "100"

GradeSet == {"A", "B+", "B", "C+", "C", "D", "F"}

gradeRank(g) ==
  CASE g = "F" -> 0 [] g = "D" -> 1 [] g = "C" -> 2 [] g = "C+" -> 3
    [] g = "B" -> 4 [] g = "B+" -> 5 [] g = "A" -> 6 [] OTHER -> -1

\* every signal record of the model
Signals == { extract(normalizeUrl(u), p) : u \in StringUrls, p \in Pages }

\* the <<score, grade>> printed in the header of every heuristic report
HeaderTable ==
  { <<toInt(headerScore(getMockResponse(b, st))),
      headerGrade(getMockResponse(b, st))>> : b \in Signals, st \in ReportStyles }

\* C9: the grade of a heuristic report is one of {A,B+,B,C+,C,D,F}; any
\* other signal record whose report has the same score has the same grade,
\* and one with a higher score never has a worse grade.
C9_GradeStepFunction ==
  \A st \in ReportStyles :
    pReports[st] # <<>> =>
      LET s == toInt(headerScore(pReports[st]))
          g == headerGrade(pReports[st])
      IN  /\ g \in GradeSet
          /\ \A other \in HeaderTable :
               /\ other[1] = s => other[2] = g
               /\ other[1] > s => gradeRank(other[2]) >= gradeRank(g)

C9_Witness ==
  /\ pReports["roast"] # <<>> /\ pReports["professional"] # <<>>
  /\ headerGrade(pReports["professional"]) = "C"
  /\ \E other \in HeaderTable : other[2] = "B"

AllNegative(a) ==
  /\ ~a.hasHttps /\ ~a.hasViewport /\ ~a.hasFavicon
  /\ a.metaDescription = NoMeta
  /\ a.h1Count = 0 /\ a.imageCount = 0 /\ a.imagesWithoutAlt = 0

\* C10: a signal record with hasHttps, hasViewport and hasFavicon false, the
\* sentinel metaDescription and no H1 and no image scores the base score,
\* 50, and is graded F, in both styles.
C10_AllNegativeScoresBase ==
  (pStage = "extracted" /\ AllNegative(pAnalysis)) =>
    \A st \in ReportStyles :
      pReports[st] # <<>> =>
        /\ headerScore(pReports[st]) = ToString(BaseScore)
        /\ headerGrade(pReports[st]) = "F"

C10_Witness ==
  /\ pStage = "extracted" /\ AllNegative(pAnalysis)
  /\ pAnalysis.scriptCount = 0
  /\ pReports["roast"] # <<>> /\ pReports["professional"] # <<>>

\* the score printed by the heuristic grader for a signal record
printedScore(a) == toInt(headerScore(getMockResponse(a, "roast")))

\* the records that differ from a in one positive condition only, which is
\* false in a and true in them
Flips(a) ==
  (IF ~a.hasHttps THEN {[a EXCEPT !.hasHttps = TRUE]} ELSE {})
  \cup (IF ~a.hasViewport THEN {[a EXCEPT !.hasViewport = TRUE]} ELSE {})
  \cup (IF a.metaDescription = NoMeta
          THEN {[a EXCEPT !.metaDescription = <<"A great site.">>]} ELSE {})
  \cup (IF a.h1Count = 0
          THEN {[a EXCEPT !.h1Count = n] : n \in 1..MaxH1} ELSE {})
  \cup (IF a.imageCount = 0
          THEN {[a EXCEPT !.imageCount = n] : n \in 1..MaxImgs}
          ELSE IF a.imagesWithoutAlt > 0
            THEN {[a EXCEPT !.imagesWithoutAlt = 0]} ELSE {})
  \cup (IF ~a.hasFavicon THEN {[a EXCEPT !.hasFavicon = TRUE]} ELSE {})

\* C11: turning exactly one positive condition of a signal record from
\* false to true (hasHttps, hasViewport, a non-sentinel metaDescription, an
\* H1, all of at least one image with alt text, hasFavicon), every other
\* field kept, never lowers the score the heuristic grader prints.
C11_ScoreMonotone ==
  \A st \in ReportStyles :
    pReports[st] # <<>> =>
      \A b \in Flips(pAnalysis) :
        printedScore(b) >= toInt(headerScore(pReports[st]))

C11_Witness ==
  /\ pReports["professional"] # <<>>
  /\ ~pAnalysis.hasFavicon /\ ~pAnalysis.hasHttps
  /\ pAnalysis.imageCount > 0 /\ pAnalysis.imagesWithoutAlt > 0
  /\ Cardinality(Flips(pAnalysis)) >= 3
  /\ \E b \in Flips(pAnalysis) :
       printedScore(b) > toInt(headerScore(pReports["professional"]))

\* the chunks of a report from the heading `from` up to the heading `to`
RECURSIVE indexOf(_, _, _)
indexOf(s, c, i) ==
  IF i > Len(s) THEN 0 ELSE IF s[i] = c THEN i ELSE indexOf(s, c, i + 1)

section(report, from, to) ==
  LET i == indexOf(report, from, 1)
      j == indexOf(report, to, 1)
  IN  IF i = 0 \/ j = 0 \/ j < i THEN <<>> ELSE SubSeq(report, i, j - 1)

MissingHttpsWarning ==
  <<"[alarm] NO HTTPS?! Chrome is literally warning people about you">>
MissingViewportWarning == <<"[x] No viewport = mobile users are squinting">>

\* C13: the Technical section of the roast-style heuristic report carries
\* the missing-HTTPS warning exactly when hasHttps is false and the
\* missing-viewport warning exactly when hasViewport is false.
C13_TechnicalWarnings ==
  pReports["roast"] # <<>> =>
    LET tech == section(pReports["roast"], "### Technical Roast",
                        "### What Actually Works")
    IN  /\ tech # <<>>
        /\ Contains(tech, MissingHttpsWarning) <=> ~pAnalysis.hasHttps
        /\ Contains(tech, MissingViewportWarning) <=> ~pAnalysis.hasViewport

C13_Witness ==
  /\ pReports["roast"] # <<>>
  /\ ~pAnalysis.hasHttps /\ ~pAnalysis.hasViewport
  /\ Contains(pReports["roast"], MissingHttpsWarning)
  /\ Contains(pReports["roast"], MissingViewportWarning)

\* C14: in every signal record the extractor produces, whatever mix of
\* images without an alt attribute, with an empty one and with a non-empty
\* one the page holds, 0 <= imagesWithoutAlt <= imageCount.
C14_ImagesWithoutAltBounded ==
  pStage = "extracted" =>
    /\ 0 <= pAnalysis.imagesWithoutAlt
    /\ pAnalysis.imagesWithoutAlt <= pAnalysis.imageCount

C14_Witness ==
  /\ pStage = "extracted"
  /\ pPage.imgs.noAlt + pPage.imgs.emptyAlt > 0
  /\ pAnalysis.imagesWithoutAlt = pAnalysis.imageCount
  /\ pAnalysis.imageCount = MaxImgs

\* a URL string that begins with the scheme `http://` or `https://`
HasExplicitScheme(u) ==
  startsWith(u, <<"http", "://">>) \/ startsWith(u, Https \o <<"://">>)

\* C15: the url handed to the fetch (and stored in the signal record) has
\* an explicit http:// or https:// scheme: a raw URL without one gets
\* https:// prepended, a raw URL with one is left unchanged.
C15_ExplicitScheme ==
  \A r \in Reqs :
    fetchCalls[r] > 0 =>
      LET raw == body[r].url.v
          url == fetched[r].url
      IN  /\ HasExplicitScheme(url)
          /\ HasExplicitScheme(raw) => url = raw
          /\ ~HasExplicitScheme(raw) => url = Https \o <<"://">> \o raw
          /\ fetched[r].success => fetched[r].analysis.url = url

\* C16: in every signal record hasHttps is true exactly when the scheme of
\* the normalized URL that was fetched is https, whatever page the server
\* returned.
C16_HasHttpsIsScheme ==
  pStage = "extracted" =>
    /\ pAnalysis.url = normalizeUrl(pUrl)
    /\ pAnalysis.hasHttps <=> startsWith(pAnalysis.url, Https \o <<"://">>)

\* the template path of /api/generate-landing rendered a page for r
TemplateRendered(r) ==
  /\ kind[r] = "landing" /\ pc[r] = "done"
  /\ gen[r]["landing"].st = "done"
  /\ Unusable(gen[r]["landing"].outcome)

\* what slot i is to show for the comma-separated string f
expectedSlot(f, i) ==
  LET entries == split(f)
  IN  IF i <= Len(entries) /\ trim(entries[i]) # <<>>
        THEN trim(entries[i]) ELSE DefaultLabels[i]

unfenced(text) ==
  LET a == IF startsWith(text, <<Fence>>)
             THEN IF Len(text) >= 2 /\ text[2] \notin Whitespace
                    THEN SubSeq(text, 3, Len(text)) ELSE Tail(text)
             ELSE text
  IN  IF endsWith(a, <<Fence>>) THEN SubSeq(a, 1, Len(a) - 1) ELSE a

\* C18: whenever the generative collaborator returns non-empty text, what
\* the caller gets back is that text without its wrapping code-fence
\* markers and otherwise unchanged (surrounding white space aside), for
\* reports and for landing pages alike.
C18_FencesStripped ==
  \A r \in Reqs : \A st \in Styles :
    (gen[r][st].st = "done" /\ ~Unusable(gen[r][st].outcome)) =>
      trim(gen[r][st].result) = trim(unfenced(gen[r][st].outcome.text))

\* the report of one style as the request's own fetch and its own
\* collaborator call decide it
ownReport(r, st) ==
  IF Unusable(gen[r][st].outcome)
    THEN getMockResponse(fetched[r].analysis, st)
    ELSE gen[r][st].outcome.text

\* the responses that r's own body and the outcomes of r's own outbound
\* calls allow
ownResponses(r) ==
  IF kind[r] = "analyze"
    THEN IF ~body[r].defined
           THEN {[status |-> 500, body |-> GenericAnalyzeError]}
         ELSE IF ~Truthy(body[r].url)
           THEN {[status |-> 400, body |-> [error |-> <<"URL is required">>]]}
         ELSE IF ~fetched[r].success
           THEN {[status |-> 400, body |-> [error |-> fetched[r].error]]}
         ELSE {[status |-> 200,
                body |-> [success |-> TRUE,
                          analysis |-> fetched[r].analysis,
                          roastFeedback |-> ownReport(r, "roast"),
                          professionalFeedback |-> ownReport(r, "professional")]]}
    ELSE IF ~body[r].defined
           THEN {[status |-> 500, body |->
                   [error |-> <<"Failed to generate landing page">>]]}
         ELSE IF ~Truthy(body[r].name) \/ ~Truthy(body[r].description)
           THEN {[status |-> 400, body |->
                   [error |-> <<"Business name and description are required">>]]}
         ELSE IF Unusable(gen[r]["landing"].outcome)
                 /\ getMockLandingPageThrows(landingInfo(body[r]))
           THEN {[status |-> 500, body |->
                   [error |-> <<"Failed to generate landing page">>]]}
         ELSE IF Unusable(gen[r]["landing"].outcome)
           THEN {[status |-> 200, body |->
                   [success |-> TRUE,
                    html |-> getMockLandingPage(landingInfo(body[r]), y)]] :
                 y \in Years}
         ELSE {[status |-> 200, body |->
                 [success |-> TRUE,
                  html |-> stripFences(gen[r]["landing"].outcome.text)]]}

\* C19: however the steps of two concurrently handled requests interleave,
\* the response to each is the one its own body and the outcomes of its own
\* outbound calls determine, and the request's url is the one it fetched.
C19_NoSharedState ==
  \A r \in Reqs :
    /\ pc[r] = "done" => (Len(resp[r]) = 1 /\ resp[r][1] \in ownResponses(r))
    /\ fetched[r].success =>
         fetched[r].analysis.url = normalizeUrl(body[r].url.v)

C19_Witness ==
  /\ pc["r1"] = "done" /\ pc["r2"] = "done"
  /\ kind["r1"] = "analyze" /\ kind["r2"] = "analyze"
  /\ resp["r1"][1].status = 200 /\ resp["r2"][1].status = 200
  /\ resp["r1"][1].body.analysis # resp["r2"][1].body.analysis
  /\ resp["r1"][1].body.roastFeedback # resp["r2"][1].body.roastFeedback
  /\ Unusable(gen["r1"]["roast"].outcome) /\ Unusable(gen["r2"]["roast"].outcome)
  /\ gen["r1"]["roast"].outcome.kind = "timeout"

\* the printed score of the record that differs from a in h1Count only
withH1(a, n) == printedScore([a EXCEPT !.h1Count = n])

\* C20: a page with exactly one H1 gets a bonus of 8 points and a page with
\* more than one H1 a strictly smaller credit: of two records differing
\* only in h1Count = 1 against h1Count > 1 the first scores strictly higher.
C20_SingleH1Scores8 ==
  (pReports["roast"] # <<>> /\ pAnalysis.h1Count > 0) =>
    LET own == toInt(headerScore(pReports["roast"]))
    IN  /\ pAnalysis.h1Count = 1 => own = withH1(pAnalysis, 0) + 8
        /\ pAnalysis.h1Count > 1 => own < withH1(pAnalysis, 1)

\* C20 as the code has it: a page with at least one H1 gets a bonus of 5
\* points, the same for one H1 as for several, so two records differing
\* only in h1Count = 1 against h1Count > 1 score the same.
C20_AnyH1Scores5 ==
  (pReports["roast"] # <<>> /\ pAnalysis.h1Count > 0) =>
    LET own == toInt(headerScore(pReports["roast"]))
    IN  /\ own = withH1(pAnalysis, 0) + 5
        /\ pAnalysis.h1Count > 1 => own = withH1(pAnalysis, 1)

C20_Witness ==
  /\ pReports["roast"] # <<>>
  /\ pAnalysis.h1Count > 1
  /\ toInt(headerScore(pReports["roast"])) = withH1(pAnalysis, 1)
  /\ withH1(pAnalysis, 1) = withH1(pAnalysis, 0) + 5

\* the printed score of the record that differs from a in scriptCount only
withScripts(a, n) == printedScore([a EXCEPT !.scriptCount = n])

\* the printed score of the record that differs from a in having 6 images,
\* n of them without alt text
withoutAlt(a, n) ==
  printedScore([a EXCEPT !.imageCount = 6, !.imagesWithoutAlt = n])

\* C21: the heuristic grader applies penalties: a record with
\* imagesWithoutAlt > 5 scores 10 points less, and a record with
\* scriptCount > 20 scores 5 points less, than the otherwise identical
\* record just below that limit.
C21_Penalties ==
  pReports["roast"] # <<>> =>
    LET own == toInt(headerScore(pReports["roast"]))
    IN  /\ pAnalysis.scriptCount > 20 => own = withScripts(pAnalysis, 20) - 5
        /\ withoutAlt(pAnalysis, 6) = withoutAlt(pAnalysis, 5) - 10

\* C21 as the code has it: the heuristic grader applies no penalty: a record
\* with imagesWithoutAlt > 5 or with scriptCount > 20 scores the same as the
\* otherwise identical record just below that limit.
C21_NoPenalties ==
  pReports["roast"] # <<>> =>
    LET own == toInt(headerScore(pReports["roast"]))
    IN  /\ pAnalysis.scriptCount > 20 => own = withScripts(pAnalysis, 20)
        /\ withoutAlt(pAnalysis, 6) = withoutAlt(pAnalysis, 5)

C21_Witness ==
  /\ pReports["roast"] # <<>>
  /\ pAnalysis.scriptCount > 20
  /\ toInt(headerScore(pReports["roast"])) = withScripts(pAnalysis, 20)
  /\ toInt(headerScore(pReports["roast"])) = withScripts(pAnalysis, 0)
  /\ withoutAlt(pAnalysis, 6) = withoutAlt(pAnalysis, 1)

\* C22: one score-to-grade table is used throughout: the letter grade the
\* server writes into the heuristic report equals the grade the client's
\* getGrade shows for the score of that report.
C22_OneGradeTable ==
  \A st \in ReportStyles :
    pReports[st] # <<>> =>
      headerGrade(pReports[st]) = getGrade(toInt(headerScore(pReports[st])))

\* page titles that themselves read like a score
ScoreLikeTitles ==
  { <<"Top ", "Score", ": ", "5", "/100", " tips">>, <<"Rating", " ", "7">> }

\* C23: the client's extractScore applied to the heuristic professional
\* report returns exactly the score the server computed for the record: the
\* header 'Score: N/100' is the first match, whatever title is interpolated
\* later in the report.
C23_ScoreRoundTrip ==
  pShown # NoShown =>
    /\ pShown.score = score(pAnalysis)
    /\ \A t \in ScoreLikeTitles :
         extractScore(getMockResponse([pAnalysis EXCEPT !.title = t],
                                      "professional")) = score(pAnalysis)

C23_Witness ==
  /\ pShown # NoShown
  /\ pShown.score = 100
  /\ score(pAnalysis) = 100
  /\ extractScore(pReports["professional"]) = 100

\* C24: the heuristic roast report and the heuristic professional report of
\* a record state the same score and the same grade, so the score the
\* client derives from the professional report is the score of the roast
\* report it shows by default.
C24_ReportsAgree ==
  (pReports["roast"] # <<>> /\ pReports["professional"] # <<>>) =>
    /\ headerScore(pReports["roast"]) = headerScore(pReports["professional"])
    /\ headerGrade(pReports["roast"]) = headerGrade(pReports["professional"])
    /\ pShown # NoShown =>
         pShown.score = extractScore(pReports["roast"])

C24_Witness ==
  /\ pShown # NoShown
  /\ pShown.score = 75
  /\ headerScore(pReports["roast"]) = "75"
  /\ headerGrade(pReports["professional"]) = "C"

\* the handler of r has been entered and has run to its end or to an await
Entered(r) == kind[r] = "analyze"

\* C25: every /api/analyze request that reaches the handler ends in exactly
\* one response, with status 200, 400 or 500: never two responses, never a
\* finished handler without one, and a response always comes once the
\* outbound calls have settled.
C25_ExactlyOneResponse ==
  /\ [](\A r \in Reqs :
          Entered(r) =>
            /\ Len(resp[r]) <= 1
            /\ pc[r] = "done" <=> Len(resp[r]) = 1
            /\ \A i \in 1..Len(resp[r]) : resp[r][i].status \in {200, 400, 500})
  /\ \A r \in Reqs : Entered(r) ~> (Entered(r) /\ Len(resp[r]) = 1)

C25_Witness ==
  \E r \in Reqs :
    /\ Entered(r) /\ pc[r] = "done"
    /\ Len(resp[r]) = 1 /\ resp[r][1].status = 200
    /\ geminiCalls[r] = 2
    /\ settled[r] = <<"professional", "roast">>

\* C26: the visible step changes only through a user action on the visible
\* step: a response to an analyze request that arrives after the user has
\* left step 1, or to a generate request that arrives after the user has
\* left the form step, does not move the user to another step.
C26_StaleResponseKeepsStep ==
  [][/\ (analyzeFlight = "pending" /\ analyzeFlight' = "none" /\ activeStep # 1)
          => activeStep' = activeStep
     /\ (landingFlight = "pending" /\ landingFlight' = "none" /\ activeStep # 3)
          => activeStep' = activeStep]_vars

\* C27: the Analyze button is disabled and marked loading exactly while an
\* analyze request started from it is in flight: disabled from the click
\* on, enabled again with the mark removed once the request has settled,
\* whether it succeeded or failed.
C27_BusyWhileInFlight ==
  /\ btnAnalyze.disabled <=> analyzeFlight = "pending"
  /\ btnAnalyze.loading <=> analyzeFlight = "pending"

C27_Witness ==
  /\ lastEvent = "analyzeRejected"
  /\ analyzeFlight = "none"
  /\ btnAnalyze = Enabled
  /\ toast = <<"Failed to fetch">>

\* C28: a failed analyze request leaves analysisResults, currentFeedbackMode
\* and the visible step unchanged and only shows a toast, so the results of
\* an earlier successful analysis stay stored and the form's Back button
\* still leads to the results step.
C28_FailureKeepsResults ==
  [][/\ (analyzeFlight = "pending" /\ lastEvent' = "analyzeRejected")
          => /\ analysisResults' = analysisResults
             /\ currentFeedbackMode' = currentFeedbackMode
             /\ activeStep' = activeStep
             /\ toast' \in AnalyzeErrors
             /\ UNCHANGED <<generatedHTML, resultsContent, shown>>
     /\ (activeStep = 3 /\ lastEvent' = "backForm"
         /\ analysisResults.t = "object")
          => activeStep' = 2]_vars

C28_Witness ==
  /\ lastEvent = "analyzeRejected"
  /\ analysisResults.t = "object"
  /\ currentFeedbackMode = "professional"
  /\ activeStep = 1
  /\ toast \in AnalyzeErrors

=============================================================================
